---- MODULE Spec2Model ----
(***************************************************************************)
(* Model of the RunPod video upscaling handler (src/handler.py).           *)
(*                                                                         *)
(* Strings are sequences of one-character strings.  Scale factors are      *)
(* integers counting tenths (15 is 1.5, 20 is 2.0).  A frame rate is a     *)
(* record [num, den] standing for the quotient num / den.                  *)
(***************************************************************************)
EXTENDS Integers, Sequences, FiniteSets, TLC

\* Python values are tagged: kind "None" for an absent value, "nan" for the
\* float NaN, "float" for a number (val in tenths), "str" for a string.
PyNone == [kind |-> "None", val |-> 0]
PyNaN == [kind |-> "nan", val |-> 0]
PyFloat(n) == [kind |-> "float", val |-> n]
StrNone == [kind |-> "None", val |-> <<>>]
PyStr(s) == [kind |-> "str", val |-> s]

\* ------------------------------------------------------------------------
\* Bounds of the model
\* ------------------------------------------------------------------------
MaxPad == 1
MaxOut == 5
NumJobs == 2
NumLocal == 2
MaxFrames == 2

\* ------------------------------------------------------------------------
\* String helpers (Python str methods used by the source)
\* ------------------------------------------------------------------------
IsSpace(c) == c \in {" ", "\t", "\n"}

SetMin(S) == CHOOSE x \in S : \A y \in S : x <= y
SetMax(S) == CHOOSE x \in S : \A y \in S : y <= x

\* str.strip(): drops leading and trailing whitespace of every kind
Strip(s) ==
    LET keep == {i \in 1..Len(s) : ~IsSpace(s[i])}
    IN  IF keep = {} THEN <<>> ELSE SubSeq(s, SetMin(keep), SetMax(keep))

LowerChar(c) ==
    CASE c = "K" -> "k"
      [] c = "P" -> "p"
      [] OTHER -> c

\* str.lower()
Lower(s) == [i \in 1..Len(s) |-> LowerChar(s[i])]

NotBlank(c) == c # " "

\* str.replace(" ", ""): drops the space character only, anywhere
RemoveSpaces(s) == SelectSeq(s, NotBlank)

\* ------------------------------------------------------------------------
\* resolve_scale
\* ------------------------------------------------------------------------
Key1080p == <<"1", "0", "8", "0", "p">>
Key2k == <<"2", "k">>
Key1440p == <<"1", "4", "4", "0", "p">>

TARGET_RESOLUTION_SCALE ==
    [k \in {Key1080p, Key2k, Key1440p} |->
        IF k = Key1080p THEN 15 ELSE 20]

DEFAULT_SCALE == 15

\* scale > 0 in Python: every comparison with NaN is false
ScalePositive(scale) == scale.kind = "float" /\ scale.val > 0

\* bool(target_resolution): None and the empty string are falsy
Truthy(target_resolution) ==
    target_resolution.kind = "str" /\ target_resolution.val # <<>>

resolve_scale_AnyScale(scale, target_resolution) ==
    IF scale.kind = "float" /\ scale.val >= 0
    THEN scale.val
    ELSE IF Truthy(target_resolution)
    THEN LET key == RemoveSpaces(Lower(Strip(target_resolution.val)))
         IN  IF key \in DOMAIN TARGET_RESOLUTION_SCALE
             THEN TARGET_RESOLUTION_SCALE[key]
             ELSE DEFAULT_SCALE
    ELSE DEFAULT_SCALE

resolve_scale(scale, target_resolution) ==
    IF scale.kind # "None" /\ ScalePositive(scale)
    THEN scale.val
    ELSE IF Truthy(target_resolution)
    THEN LET key == RemoveSpaces(Lower(Strip(target_resolution.val)))
         IN  IF key \in DOMAIN TARGET_RESOLUTION_SCALE
             THEN TARGET_RESOLUTION_SCALE[key]
             ELSE IF key = Key2k \/ key = Key1440p
             THEN 20
             ELSE IF key = Key1080p
             THEN 15
             ELSE DEFAULT_SCALE
    ELSE DEFAULT_SCALE

\* ------------------------------------------------------------------------
\* get_video_fps
\* ------------------------------------------------------------------------
Digits == {"0", "1", "3"}

DigitVal(c) ==
    CASE c = "0" -> 0
      [] c = "1" -> 1
      [] c = "3" -> 3

RECURSIVE DecVal(_)
DecVal(s) ==
    IF s = <<>> THEN 0
    ELSE 10 * DecVal(SubSeq(s, 1, Len(s) - 1)) + DigitVal(s[Len(s)])

\* str.split("/"): the pieces between the slashes, empty pieces included
RECURSIVE Split(_)
Split(s) ==
    LET at == {i \in 1..Len(s) : s[i] = "/"}
    IN  IF at = {} THEN <<s>>
        ELSE <<SubSeq(s, 1, SetMin(at) - 1)>>
                 \o Split(SubSeq(s, SetMin(at) + 1, Len(s)))

\* float(text): surrounding whitespace is ignored; anything but a run of
\* digits is a ValueError (ok = FALSE)
ParseFloat(text) ==
    LET t == Strip(text)
    IN  IF t # <<>> /\ \A i \in 1..Len(t) : t[i] \in Digits
        THEN [ok |-> TRUE, val |-> DecVal(t)]
        ELSE [ok |-> FALSE, val |-> 0]

Rate(n, d) == [exc |-> "none", num |-> n, den |-> d]
Raised(e) == [exc |-> e, num |-> 0, den |-> 1]

\* the body of the try block: the value returned or the exception raised
fps_try(probe) ==
    IF ~probe.ok THEN Raised("CalledProcessError")
    ELSE LET parts == Split(Strip(probe.out))
         IN  IF Len(parts) # 2 THEN Raised("ValueError")
             ELSE LET num == parts[1]
                      den == parts[2]
                  IN  IF den # <<"0">>
                      THEN IF ~ParseFloat(num).ok \/ ~ParseFloat(den).ok
                           THEN Raised("ValueError")
                           ELSE IF ParseFloat(den).val = 0
                           THEN Raised("ZeroDivisionError")
                           ELSE Rate(ParseFloat(num).val, ParseFloat(den).val)
                      ELSE Rate(30, 1)

get_video_fps_ExpectedOnly(probe) ==
    LET r == fps_try(probe)
    IN  IF r.exc \in {"CalledProcessError", "ValueError"} THEN Rate(30, 1) ELSE r

get_video_fps(probe) ==
    LET r == fps_try(probe)
    IN  IF r.exc # "none" THEN Rate(30, 1) ELSE r

\* ------------------------------------------------------------------------
\* State
\* ------------------------------------------------------------------------
VARIABLES
    rs,       \* one call of resolve_scale: its arguments and its result
    fps,      \* one call of get_video_fps: the probe's outcome and the result
    input,    \* input[j]: the payload of job j (video_url, file_path)
    local0,   \* the collaborator's local files when the jobs arrive
    local,    \* the collaborator's local files: path -> content
    tmpIn,    \* /tmp/input_<uuid>.mp4: uuid -> content
    work,     \* /tmp/<uuid>: uuid -> directory
    job       \* job[j]: the position and locals of handler(event) for job j

vars == <<rs, fps, input, local0, local, tmpIn, work, job>>

Jobs == 1..NumJobs
LocalPaths == 1..NumLocal
Ids == 1..(2 * NumJobs)
FileState == {"absent", "empty", "data"}

\* uuid.uuid4(): the n-th identifier drawn by job j; no two draws collide
uuid4(j, n) == 2 * (j - 1) + n

NoPath == [root |-> "none", name |-> 0]
TmpPath(id) == [root |-> "tmp", name |-> id]
LocalPath(p) == [root |-> "local", name |-> p]

\* os.path.isfile / os.path.getsize on an input path
ReadFile(path) ==
    CASE path.root = "tmp" -> tmpIn[path.name]
      [] path.root = "local" -> local[path.name]
      [] OTHER -> "absent"

\* names inside a working directory
FrameName(i) == [stem |-> "frame_", idx |-> i, ext |-> ".png"]
UpscaledName(i) == [stem |-> "frames_upscaled_", idx |-> i, ext |-> ".png"]
NoAudioName == [stem |-> "upscaled_noaudio", idx |-> 0, ext |-> ".mp4"]
FinalName == [stem |-> "upscaled_with_audio", idx |-> 0, ext |-> ".mp4"]

NoDir == [exists |-> FALSE, src |-> "absent", files |-> {}]

\* fname.startswith("frame_") and fname.endswith(".png")
IsFrameFile(f) == f.stem = "frame_" /\ f.ext = ".png"

\* fname.replace("frame_", "frames_upscaled_")
OutName(f) ==
    IF f.stem = "frame_" THEN [f EXCEPT !.stem = "frames_upscaled_"] ELSE f

RECURSIVE SortedByIdx(_)
\* sorted(...) of the frame files: by zero-padded index
SortedByIdx(S) ==
    IF S = {} THEN <<>>
    ELSE LET m == CHOOSE f \in S : \A g \in S : f.idx <= g.idx
         IN  <<m>> \o SortedByIdx(S \ {m})

FrameIdx(d) == {f.idx : f \in {g \in d.files : g.stem = "frame_"}}
UpscaledIdx(d) == {f.idx : f \in {g \in d.files : g.stem = "frames_upscaled_"}}

NoResult == [returned |-> FALSE, raised |-> FALSE, error |-> FALSE, output_base64 |-> FALSE]
\* {"error": ..., "output_base64": None, "output_url": None}
ErrorResult == [returned |-> TRUE, raised |-> FALSE, error |-> TRUE, output_base64 |-> FALSE]
\* {"output_base64": <data>, ...}
OkResult == [returned |-> TRUE, raised |-> FALSE, error |-> FALSE, output_base64 |-> TRUE]
\* an exception leaves handler(): no dict is returned
Propagated == [returned |-> FALSE, raised |-> TRUE, error |-> FALSE, output_base64 |-> FALSE]

JobInit ==
    [pc |-> "start", tmp_path |-> NoPath, work_dir |-> 0, todo |-> <<>>,
     result |-> NoResult, started |-> {}, failed |-> "none",
     invoked |-> "n/a", fault |-> FALSE]

\* ------------------------------------------------------------------------
\* handler and upscale_video, one action per blocking step
\* ------------------------------------------------------------------------
\* the stage raised subprocess.CalledProcessError: caught, an error dict returned
Caught(j, stage, isFault) ==
    [job[j] EXCEPT !.pc = "finally", !.result = ErrorResult, !.failed = stage,
                   !.started = @ \cup {stage}, !.fault = @ \/ isFault]

\* the stage raised another exception: nothing catches it
Uncaught(j, stage, isFault) ==
    [job[j] EXCEPT !.pc = "finally", !.result = Propagated, !.failed = stage,
                   !.started = @ \cup {stage}, !.fault = @ \/ isFault]

\* the files outside the working directories after path gets content c
PutLocal(path, c) ==
    IF path.root = "local" THEN [local EXCEPT ![path.name] = c] ELSE local
PutTmp(path, c) ==
    IF path.root = "tmp" THEN [tmpIn EXCEPT ![path.name] = c] ELSE tmpIn

\* the payload is read; without a source the handler returns before the try
Start(j) ==
    /\ job[j].pc = "start"
    /\ IF ~input[j].video_url /\ input[j].file_path = 0
       THEN job' = [job EXCEPT ![j].pc = "done", ![j].result = ErrorResult]
       ELSE job' = [job EXCEPT ![j].tmp_path = TmpPath(uuid4(j, 1)),
                               ![j].pc = IF input[j].video_url
                                         THEN "download" ELSE "check_local"]
    /\ UNCHANGED <<rs, fps, input, local0, local, tmpIn, work>>

\* curl writes the download (possibly nothing, possibly a part of it) and
\* exits with or without an error; the downloaded file is then checked
Download(j) ==
    /\ job[j].pc = "download"
    /\ \E ok \in BOOLEAN, content \in FileState :
         /\ tmpIn' = PutTmp(job[j].tmp_path, content)
         /\ job' = [job EXCEPT ![j] =
                IF ~ok THEN Caught(j, "input", TRUE)
                ELSE IF content \in {"absent", "empty"}
                THEN Caught(j, "input", FALSE)
                ELSE [job[j] EXCEPT !.pc = "make_dir",
                                    !.started = @ \cup {"input"}]]
    /\ UNCHANGED <<rs, fps, input, local0, local, work>>

\* the local file is checked for existence only
CheckLocal(j) ==
    /\ job[j].pc = "check_local"
    /\ job' = [job EXCEPT ![j] =
           IF local[input[j].file_path] = "absent"
           THEN Caught(j, "input", FALSE)
           ELSE [job[j] EXCEPT !.pc = "make_dir",
                               !.tmp_path = LocalPath(input[j].file_path),
                               !.started = @ \cup {"input"}]]
    /\ UNCHANGED <<rs, fps, input, local0, local, tmpIn, work>>

\* upscale_video is called: a fresh working directory is made
MakeWorkDir(j) ==
    /\ job[j].pc = "make_dir"
    /\ LET id == uuid4(j, 2)
       IN  /\ work' = [work EXCEPT ![id].exists = TRUE]
           /\ job' = [job EXCEPT ![j].pc = "move", ![j].work_dir = id,
                                 ![j].invoked = ReadFile(job[j].tmp_path)]
    /\ UNCHANGED <<rs, fps, input, local0, local, tmpIn>>

\* os.rename(input_path, src): the input is moved into the working directory,
\* or OSError is raised (the input is gone, or the rename is refused)
MoveInput(j) ==
    /\ job[j].pc = "move"
    /\ LET path == job[j].tmp_path
           c == ReadFile(path)
       IN  \E ok \in BOOLEAN :
             IF c = "absent" \/ ~ok
             THEN /\ job' = [job EXCEPT ![j] = Uncaught(j, "move", c # "absent")]
                  /\ UNCHANGED <<local, tmpIn, work>>
             ELSE /\ work' = [work EXCEPT ![job[j].work_dir].src = c]
                  /\ local' = PutLocal(path, "absent")
                  /\ tmpIn' = PutTmp(path, "absent")
                  /\ job' = [job EXCEPT ![j].pc = "extract",
                                        ![j].started = @ \cup {"move"}]
    /\ UNCHANGED <<rs, fps, input, local0>>

\* the frame rate is probed (never fatal) and ffmpeg extracts frame_<i>.png;
\* a failing ffmpeg may leave the frames it had written
Extract(j) ==
    /\ job[j].pc = "extract"
    /\ LET id == job[j].work_dir
       IN  \E ok \in BOOLEAN, n \in 0..MaxFrames :
             /\ ok => (work[id].src = "data" /\ n >= 1)
             /\ work[id].src # "data" => n = 0
             /\ work' = [work EXCEPT ![id].files =
                            @ \cup {FrameName(i) : i \in 1..n}]
             /\ job' = [job EXCEPT ![j] =
                    IF ok
                    THEN [job[j] EXCEPT !.pc = "load_model",
                                        !.started = @ \cup {"extract"}]
                    ELSE Caught(j, "extract", work[id].src = "data")]
    /\ UNCHANGED <<rs, fps, input, local0, local, tmpIn>>

\* upscale_frames_cuda: the model is loaded and the frame files are listed
LoadModel(j) ==
    /\ job[j].pc = "load_model"
    /\ \E ok \in BOOLEAN :
         job' = [job EXCEPT ![j] =
             IF ok
             THEN [job[j] EXCEPT
                     !.pc = "upscale",
                     !.started = @ \cup {"upscale"},
                     !.todo = SortedByIdx({f \in work[job[j].work_dir].files :
                                              IsFrameFile(f)})]
             ELSE Uncaught(j, "upscale", TRUE)]
    /\ UNCHANGED <<rs, fps, input, local0, local, tmpIn, work>>

\* one turn of the loop: imread, enhance, imwrite.  imread and enhance may
\* raise; cv2.imwrite reports a failed write by returning False, which the
\* loop does not look at
UpscaleFrame(j) ==
    /\ job[j].pc = "upscale"
    /\ job[j].todo # <<>>
    /\ LET id == job[j].work_dir
           fname == Head(job[j].todo)
       IN  \E outcome \in {"written", "not_written", "raised"} :
             /\ work' = [work EXCEPT ![id].files =
                            IF outcome = "written"
                            THEN @ \cup {OutName(fname)} ELSE @]
             /\ job' = [job EXCEPT ![j] =
                    IF outcome = "raised"
                    THEN Uncaught(j, "upscale", TRUE)
                    ELSE [job[j] EXCEPT !.todo = Tail(@),
                                        !.fault = @ \/ outcome = "not_written"]]
    /\ UNCHANGED <<rs, fps, input, local0, local, tmpIn>>

\* the loop is over: ffmpeg encodes frames_upscaled_<i>.png
Encode(j) ==
    /\ job[j].pc = "upscale"
    /\ job[j].todo = <<>>
    /\ LET id == job[j].work_dir
       IN  \E ok \in BOOLEAN :
             /\ ok => UpscaledIdx(work[id]) # {}
             /\ work' = [work EXCEPT ![id].files =
                            IF ok THEN @ \cup {NoAudioName} ELSE @]
             /\ job' = [job EXCEPT ![j] =
                    IF ok
                    THEN [job[j] EXCEPT !.pc = "remux",
                                        !.started = @ \cup {"encode"}]
                    ELSE Caught(j, "encode", UpscaledIdx(work[id]) # {})]
    /\ UNCHANGED <<rs, fps, input, local0, local, tmpIn>>

\* ffmpeg copies the audio of src.mp4 onto the encoded video
Remux(j) ==
    /\ job[j].pc = "remux"
    /\ LET id == job[j].work_dir
       IN  \E ok \in BOOLEAN :
             /\ work' = [work EXCEPT ![id].files =
                            IF ok THEN @ \cup {FinalName} ELSE @]
             /\ job' = [job EXCEPT ![j] =
                    IF ok
                    THEN [job[j] EXCEPT !.pc = "deliver",
                                        !.started = @ \cup {"remux"}]
                    ELSE Caught(j, "remux", TRUE)]
    /\ UNCHANGED <<rs, fps, input, local0, local, tmpIn>>

\* the final video is read and returned base64-encoded
Deliver(j) ==
    /\ job[j].pc = "deliver"
    /\ FinalName \in work[job[j].work_dir].files
    /\ job' = [job EXCEPT ![j].pc = "finally", ![j].result = OkResult]
    /\ UNCHANGED <<rs, fps, input, local0, local, tmpIn, work>>

\* finally: the download is removed if it is still at tmp_path.  os.remove of
\* a file the job itself wrote is taken to succeed, so the except clause has
\* nothing to ignore
Finish(j) ==
    /\ job[j].pc = "finally"
    /\ LET path == job[j].tmp_path
       IN  IF input[j].video_url /\ ReadFile(path) # "absent"
           THEN /\ local' = PutLocal(path, "absent")
                /\ tmpIn' = PutTmp(path, "absent")
           ELSE UNCHANGED <<local, tmpIn>>
    /\ job' = [job EXCEPT ![j].pc = "done"]
    /\ UNCHANGED <<rs, fps, input, local0, work>>

RsIdle == [pc |-> "idle", scale |-> PyNone, target_resolution |-> StrNone, result |-> 0]
FpsIdle == [pc |-> "idle", probe |-> [ok |-> FALSE, out |-> <<>>], result |-> Raised("pending")]

Init ==
    /\ rs = RsIdle
    /\ fps = FpsIdle
    /\ input \in [Jobs -> [video_url : BOOLEAN, file_path : 0..NumLocal]]
    /\ local0 \in [LocalPaths -> FileState]
    /\ local = local0
    /\ tmpIn = [id \in Ids |-> "absent"]
    /\ work = [id \in Ids |-> NoDir]
    /\ job = [j \in Jobs |-> JobInit]

Next ==
    \E j \in Jobs :
        \/ Start(j)
        \/ Download(j)
        \/ CheckLocal(j)
        \/ MakeWorkDir(j)
        \/ MoveInput(j)
        \/ Extract(j)
        \/ LoadModel(j)
        \/ UpscaleFrame(j)
        \/ Encode(j)
        \/ Remux(j)
        \/ Deliver(j)
        \/ Finish(j)

Spec == Init /\ [][Next]_vars

\* ------------------------------------------------------------------------
\* resolve_scale on its own: every combination of the two arguments
\* ------------------------------------------------------------------------
\* handler: scale = float(scale_raw) if scale_raw is not None else None
ScaleInputs == {PyNone, PyNaN} \cup {PyFloat(n) : n \in {-10, 0, 5, 15, 20, 30}}

PadStrings == UNION {[1..n -> {" ", "\t"}] : n \in 0..MaxPad}

UpperChar(c) ==
    CASE c = "k" -> "K"
      [] c = "p" -> "P"
      [] OTHER -> c

Upper(s) == [i \in 1..Len(s) |-> UpperChar(s[i])]

InsertSpace(s, i) ==
    IF i = 0 THEN s ELSE SubSeq(s, 1, i) \o <<" ">> \o SubSeq(s, i + 1, Len(s))

\* the spellings of a name: either case, a space put anywhere, whitespace around
Variants(b) ==
    {l \o InsertSpace(c, i) \o r :
        l \in PadStrings, r \in PadStrings, c \in {b, Upper(b)}, i \in 0..Len(b)}

OtherNames == {<<"4", "k">>, <<"7", "2", "0", "p">>}

TargetInputs ==
    {StrNone}
        \cup {PyStr(t) : t \in UNION {Variants(b) :
                 b \in {Key1080p, Key2k, Key1440p} \cup OtherNames}}
        \cup {PyStr(t) : t \in {<<>>, <<" ">>, <<"2", "\t", "k">>, <<"2">>, <<"k">>}}

InitScale ==
    /\ rs \in [pc : {"called"}, scale : ScaleInputs,
               target_resolution : TargetInputs, result : {0}]
    /\ fps = FpsIdle
    /\ input = [j \in Jobs |-> [video_url |-> FALSE, file_path |-> 0]]
    /\ local0 = [p \in LocalPaths |-> "absent"]
    /\ local = local0
    /\ tmpIn = [id \in Ids |-> "absent"]
    /\ work = [id \in Ids |-> NoDir]
    /\ job = [j \in Jobs |-> JobInit]

\* handler: scale = resolve_scale(scale, target_resolution)
ResolveScale ==
    /\ rs.pc = "called"
    /\ rs' = [rs EXCEPT !.pc = "returned",
                        !.result = resolve_scale(rs.scale, rs.target_resolution)]
    /\ UNCHANGED <<fps, input, local0, local, tmpIn, work, job>>

NextScale == ResolveScale

SpecScale == InitScale /\ [][NextScale]_vars

\* ------------------------------------------------------------------------
\* get_video_fps on its own: every outcome of the probe
\* ------------------------------------------------------------------------
OutChars == Digits \cup {"/", "\n", "x"}

ProbeOutcomes ==
    {[ok |-> FALSE, out |-> <<>>]}
        \cup {[ok |-> TRUE, out |-> o] :
                 o \in UNION {[1..n -> OutChars] : n \in 0..MaxOut}}

InitFps ==
    /\ rs = RsIdle
    /\ fps \in [pc : {"called"}, probe : ProbeOutcomes, result : {Raised("pending")}]
    /\ input = [j \in Jobs |-> [video_url |-> FALSE, file_path |-> 0]]
    /\ local0 = [p \in LocalPaths |-> "absent"]
    /\ local = local0
    /\ tmpIn = [id \in Ids |-> "absent"]
    /\ work = [id \in Ids |-> NoDir]
    /\ job = [j \in Jobs |-> JobInit]

\* upscale_video: out_fps = ... get_video_fps(src)
ProbeFps ==
    /\ fps.pc = "called"
    /\ fps' = [fps EXCEPT !.pc = "returned", !.result = get_video_fps(fps.probe)]
    /\ UNCHANGED <<rs, input, local0, local, tmpIn, work, job>>

NextFps == ProbeFps

SpecFps == InitFps /\ [][NextFps]_vars

\* ------------------------------------------------------------------------
\* Properties
\* ------------------------------------------------------------------------
\* the preset a target_resolution names, by its spelling; 0 when it names none
NamedPreset(t) ==
    IF t.kind # "str" THEN 0
    ELSE IF t.val \in Variants(Key1080p) THEN 15
    ELSE IF t.val \in Variants(Key2k) \cup Variants(Key1440p) THEN 20
    ELSE 0

\* C1: resolve_scale returns the explicit scale when it is present and
\* positive; otherwise the value of the preset that target_resolution names
\* (1.5 for 1080p, 2.0 for 2k and 1440p); otherwise the default 1.5.
C1_ScalePrecedence ==
    rs.pc = "returned" =>
        rs.result =
            IF rs.scale.kind = "float" /\ rs.scale.val > 0 THEN rs.scale.val
            ELSE IF NamedPreset(rs.target_resolution) # 0
            THEN NamedPreset(rs.target_resolution)
            ELSE 15

\* an explicit scale 3.0 given together with the preset 1080p resolves to 3.0
C1_Witness ==
    /\ rs.pc = "returned"
    /\ rs.scale = PyFloat(30)
    /\ rs.target_resolution = PyStr(Key1080p)
    /\ rs.result = 30

\* C2: when a job has ended, the working directory it created is deleted or
\* emptied, whatever the exit path.
C2_WorkDirRemoved ==
    \A j \in Jobs :
        (job[j].pc = "done" /\ job[j].work_dir # 0) =>
            LET d == work[job[j].work_dir]
            IN  ~d.exists \/ (d.src = "absent" /\ d.files = {})

StageNo(st) ==
    CASE st = "input" -> 1
      [] st = "move" -> 2
      [] st = "extract" -> 3
      [] st = "upscale" -> 4
      [] st = "encode" -> 5
      [] st = "remux" -> 6
      [] OTHER -> 0

\* C3: when input acquisition, frame extraction, upscaling, encoding or the
\* audio remux fails, no later stage is started and the handler returns one
\* error result: error set, output_base64 null.
C3_SingleErrorResult ==
    \A j \in Jobs :
        (job[j].pc = "done"
            /\ job[j].failed \in {"input", "extract", "upscale", "encode", "remux"}) =>
            /\ job[j].result.returned
            /\ job[j].result.error
            /\ ~job[j].result.output_base64
            /\ \A st \in job[j].started : StageNo(st) <= StageNo(job[j].failed)

\* C4: once the encoding stage has started, the upscaled frame indices are
\* exactly the extracted frame indices.
C4_FrameSetsMatch ==
    \A j \in Jobs :
        "encode" \in job[j].started =>
            UpscaledIdx(work[job[j].work_dir]) = FrameIdx(work[job[j].work_dir])

\* C5: upscale_video is only ever invoked on a source that is an existing,
\* non-empty file.
C5_ValidatedSource ==
    \A j \in Jobs : job[j].invoked \in {"n/a", "data"}

\* C6: when the handler of a video_url job has returned, the downloaded copy
\* is on disk neither at its download path nor where it was moved to.
C6_DownloadRemoved ==
    \A j \in Jobs :
        (job[j].pc = "done" /\ input[j].video_url) =>
            /\ tmpIn[uuid4(j, 1)] = "absent"
            /\ job[j].work_dir # 0 => work[job[j].work_dir].src = "absent"

\* C7: when the handler of a file_path job has returned, the file that was
\* at file_path when the job arrived is still there.
C7_LocalFileKept ==
    \A j \in Jobs :
        (job[j].pc = "done" /\ ~input[j].video_url /\ input[j].file_path # 0) =>
            (local0[input[j].file_path] # "absent" =>
                local[input[j].file_path] # "absent")

\* C8: two jobs have distinct working directories, and a job ends as it does
\* alone: a file_path job whose file is a video and none of whose steps is
\* made to fail returns the video, whatever the other job does.
C8_Isolation ==
    /\ \A j \in Jobs, k \in Jobs :
         (j # k /\ job[j].work_dir # 0 /\ job[k].work_dir # 0) =>
             job[j].work_dir # job[k].work_dir
    /\ \A j \in Jobs :
         (job[j].pc = "done" /\ ~input[j].video_url /\ input[j].file_path # 0
             /\ local0[input[j].file_path] = "data" /\ ~job[j].fault) =>
             job[j].result = OkResult

\* a numeral: digits with nothing but whitespace around them
IsNumeral(s) ==
    \E a \in 1..Len(s), b \in 1..Len(s) :
        /\ a <= b
        /\ \A i \in 1..Len(s) :
             IF a <= i /\ i <= b THEN s[i] \in Digits ELSE IsSpace(s[i])

NumeralVal(s) == DecVal(SelectSeq(s, LAMBDA c : c \in Digits))

\* the places of the slash in an output of the form "num/den"
RateSlash(out) ==
    {i \in 1..Len(out) :
        /\ out[i] = "/"
        /\ \A k \in 1..Len(out) : out[k] = "/" => k = i
        /\ IsNumeral(SubSeq(out, 1, i - 1))
        /\ IsNumeral(SubSeq(out, i + 1, Len(out)))}

\* C9: get_video_fps never raises; it returns num/den when the probe prints
\* "num/den" with den non-zero, and 30.0 when the probe fails, the output is
\* malformed, or den is zero.
C9_FpsNeverRaises ==
    fps.pc = "returned" =>
        /\ fps.result.exc = "none"
        /\ fps.result.den # 0
        /\ LET out == fps.probe.out
               at == RateSlash(out)
           IN  IF fps.probe.ok /\ at # {}
                   /\ \A i \in at : NumeralVal(SubSeq(out, i + 1, Len(out))) # 0
               THEN \A i \in at :
                      fps.result.num * NumeralVal(SubSeq(out, i + 1, Len(out)))
                          = NumeralVal(SubSeq(out, 1, i - 1)) * fps.result.den
               ELSE fps.result.num = 30 * fps.result.den

\* the probe printed 13/3 and a newline; 13/3 is returned
C9_Witness ==
    /\ fps.pc = "returned"
    /\ fps.probe = [ok |-> TRUE, out |-> <<"1", "3", "/", "3", "\n">>]
    /\ fps.result = Rate(13, 3)

====
